---- MODULE Spec2Model ----
(***************************************************************************)
(* The canvas blog backend: the posts / post_versions / snapshots tables   *)
(* of blog.db and the request handlers that read and write them.  Two      *)
(* deployment variants are modelled: "main" (src/canvas-blog-backend.py,   *)
(* snapshots) and "V1" (src/AI_produced_code /V1/canvas-blog-backend.py,   *)
(* post_versions table).                                                   *)
(***************************************************************************)
EXTENDS Integers, Sequences, FiniteSets, TLC

\* Bounds of the model.
MaxPosts == 2          \* rows ever inserted into posts
MaxSnapshots == 2      \* rows ever inserted into snapshots
MaxClock == 1          \* the wall clock runs 0..MaxClock

VARIABLES
    variant,        \* which backend file is deployed: "main" or "V1"
    posts,          \* table posts: a set of rows
    posts_seq,      \* sqlite_sequence entry of posts (AUTOINCREMENT)
    post_versions,  \* table post_versions (V1 only): a set of rows
    snapshots,      \* table snapshots (main only): a set of rows
    snapshots_seq,  \* sqlite_sequence entry of snapshots
    now,            \* wall clock (CURRENT_TIMESTAMP / datetime.now())
    resp,           \* the last request handled and the response it got
    conn,           \* per worker: the update_post call it is executing
    lock            \* holder of the database write lock, or NoLock

vars == <<variant, posts, posts_seq, post_versions, snapshots, snapshots_seq,
          now, resp, conn, lock>>

-----------------------------------------------------------------------------
\* Python values

\* Python's None where a string is expected (Optional[str]).
None == "<None>"

\* A value of `dimensions: Optional[dict]`: None, or a dict as the ordered
\* sequence of its <<key, value>> items.
NoneDict == [none |-> TRUE, items |-> <<>>]

DictVal(items) == [none |-> FALSE, items |-> items]

\* datetime: seconds on the model clock, and whether it carries a UTC offset.
Naive(t) == [t |-> t, tz |-> FALSE]

Aware(t) == [t |-> t, tz |-> TRUE]

-----------------------------------------------------------------------------
\* JSON text, as the sequence of its tokens

RECURSIVE DumpItems(_)
DumpItems(items) ==
    IF items = <<>> THEN <<>>
    ELSE <<items[1][1], items[1][2]>> \o DumpItems(Tail(items))

\* json.dumps of a dimensions value
JsonDumps(d) ==
    IF d.none THEN <<"null">> ELSE <<"{">> \o DumpItems(d.items) \o <<"}">>

\* json.loads of the text of a dimensions value
JsonLoads(text) ==
    IF text = <<"null">> THEN NoneDict
    ELSE DictVal([i \in 1..((Len(text) - 2) \div 2) |->
                    <<text[2 * i], text[2 * i + 1]>>])

\* post["dimensions"] or "{}": NULL and '' read as the empty object
DimensionsOrDefault(text) == IF text = <<>> THEN <<"{", "}">> ELSE text

\* datetime.isoformat(): the seconds, and "+00:00" for an aware datetime
IsoFormat(dt) == IF dt.tz THEN <<ToString(dt.t), "+00:00">> ELSE <<ToString(dt.t)>>

\* the datetime an ISO string denotes
ParseIso(s) ==
    [t |-> CHOOSE n \in 0..(MaxClock + 1) : ToString(n) = s[1], tz |-> Len(s) = 2]

\* a number as JSON text and back
NumDumps(n) == ToString(n)

NumLoads(s) == CHOOSE n \in 0..(MaxPosts + MaxSnapshots + 3) : ToString(n) = s

\* a str or None as JSON text and back
StrDumps(s) == IF s = None THEN <<"null">> ELSE <<"\"", s>>

StrLoads(toks) == IF toks = <<"null">> THEN None ELSE toks[2]

-----------------------------------------------------------------------------
\* Requests

\* The JSON bodies clients send to POST /posts/ and PUT /posts/{id}: `present`
\* names the members the body has; a member that is absent has no value (the
\* record's entry for it is a filler the backend never reads).
Absent == "<absent>"

Body(present, title, content, x, y, dimensions, user_id) ==
    [present |-> present, title |-> title, content |-> content,
     position_x |-> x, position_y |-> y, dimensions |-> dimensions,
     user_id |-> user_id]

AllMembers == {"title", "content", "position_x", "position_y", "dimensions", "user_id"}

Bodies ==
    { Body(AllMembers, "A", "x", 1, 2, DictVal(<< <<"w", "1">> >>), "alice"),
      Body({"title", "content"}, "B", "y", 0, 0, DictVal(<<>>), Absent),
      Body(AllMembers, "", "", 0, 0, NoneDict, "guest"),
      Body(AllMembers, "A", "x", 1, 2, DictVal(<< <<"w", "1">> >>), None),
      Body(AllMembers \ {"title"}, Absent, "x", 1, 2, DictVal(<<>>), "alice"),
      Body(AllMembers \ {"content"}, "A", Absent, 1, 2, DictVal(<<>>), "alice") }

\* Path parameter {id} of PUT and DELETE
Ids == 1..MaxPosts

\* Version numbers a client sends with a snapshot
Versions == {1, 2}

\* class PostBase / PostCreate of the main backend: title and content are
\* required, the other members have defaults.
PostBase(b) ==
    [title |-> b.title, content |-> b.content,
     position_x |-> IF "position_x" \in b.present THEN b.position_x ELSE 0,
     position_y |-> IF "position_y" \in b.present THEN b.position_y ELSE 0,
     dimensions |-> IF "dimensions" \in b.present THEN b.dimensions ELSE DictVal(<<>>),
     user_id |-> IF "user_id" \in b.present THEN b.user_id ELSE "guest"]

\* No member is required
PostCreateAlwaysOk(b) == TRUE

\* Whether the body validates as a PostCreate (main backend)
PostCreateOk(b) == {"title", "content"} \subseteq b.present

\* class PostBase / PostCreate of V1: position_x and position_y are required too
V1_PostBase(b) ==
    [title |-> b.title, content |-> b.content,
     position_x |-> b.position_x, position_y |-> b.position_y,
     dimensions |-> IF "dimensions" \in b.present THEN b.dimensions ELSE DictVal(<<>>),
     user_id |-> IF "user_id" \in b.present THEN b.user_id ELSE "guest"]

V1_PostCreateOk(b) == {"title", "content", "position_x", "position_y"} \subseteq b.present

-----------------------------------------------------------------------------
\* Storage

Max(a, b) == IF a >= b THEN a ELSE b

RECURSIVE MaxId(_)
MaxId(rows) ==
    IF rows = {} THEN 0
    ELSE LET r == CHOOSE r \in rows : TRUE IN Max(r.id, MaxId(rows \ {r}))

\* The current value of the sequence instead of the next
NextRowidStale(rows, seq) == Max(seq, MaxId(rows))

\* id INTEGER PRIMARY KEY AUTOINCREMENT: one more than the largest rowid the
\* table has ever held
NextRowid(rows, seq) == Max(seq, MaxId(rows)) + 1

\* The NOT NULL constraints of table posts on the columns an INSERT binds
PostsNotNull(p) == p.user_id # None /\ p.title # None /\ p.content # None

\* INSERT INTO posts (title, content, position_x, position_y, dimensions, user_id)
InsertPost(p, id, t) ==
    [id |-> id, user_id |-> p.user_id, title |-> p.title, content |-> p.content,
     position_x |-> p.position_x, position_y |-> p.position_y,
     dimensions |-> JsonDumps(p.dimensions), created_at |-> t]

\* The UPDATE without dimensions
UpdateRowWithoutDimensions(row, p) ==
    [row EXCEPT !.title = p.title, !.content = p.content,
                !.position_x = p.position_x, !.position_y = p.position_y]

\* The UPDATE also binds user_id
UpdateRowWithOwner(row, p) ==
    [row EXCEPT !.title = p.title, !.content = p.content,
                !.position_x = p.position_x, !.position_y = p.position_y,
                !.dimensions = JsonDumps(p.dimensions), !.user_id = p.user_id]

\* UPDATE posts SET title, content, position_x, position_y, dimensions: one row
UpdateRow(row, p) ==
    [row EXCEPT !.title = p.title, !.content = p.content,
                !.position_x = p.position_x, !.position_y = p.position_y,
                !.dimensions = JsonDumps(p.dimensions)]

\* The statement without its WHERE clause
WhereAny(r, id) == TRUE

\* WHERE id = ?
Where(r, id) == r.id = id

\* UPDATE posts SET ... WHERE id = ?
UpdatePosts(rows, id, p) ==
    {IF Where(r, id) THEN UpdateRow(r, p) ELSE r : r \in rows}

\* V1: UPDATE posts SET title, content, position_x, position_y WHERE id = ?
V1_UpdatePosts(rows, id, p) ==
    {IF Where(r, id)
     THEN [r EXCEPT !.title = p.title, !.content = p.content,
                    !.position_x = p.position_x, !.position_y = p.position_y]
     ELSE r : r \in rows}

\* cursor.rowcount of an UPDATE or DELETE ... WHERE id = ?
Rowcount(rows, id) == Cardinality({r \in rows : Where(r, id)})

\* DELETE FROM posts WHERE id = ?
DeletePosts(rows, id) == {r \in rows : ~Where(r, id)}

\* V1 declares FOREIGN KEY(post_id) REFERENCES posts(id) ON DELETE CASCADE, and
\* no connection sets PRAGMA foreign_keys, which SQLite leaves off: the DELETE
\* removes no post_versions row.
V1_DeleteVersions(rows, id) == rows

\* ORDER BY created_at DESC: every order of the rows with created_at
\* descending (SQLite leaves the order of equal keys open)
OrderByCreatedAtDesc(rows) ==
    {s \in [1..Cardinality(rows) -> rows] :
        /\ \A i, j \in DOMAIN s : i # j => s[i] # s[j]
        /\ \A i, j \in DOMAIN s : i < j => s[i].created_at >= s[j].created_at}

\* ORDER BY version DESC
OrderByVersionDesc(rows) ==
    {s \in [1..Cardinality(rows) -> rows] :
        /\ \A i, j \in DOMAIN s : i # j => s[i] # s[j]
        /\ \A i, j \in DOMAIN s : i < j => s[i].version >= s[j].version}

-----------------------------------------------------------------------------
\* Snapshot payloads

\* class Post, as a client sends it inside a snapshot
PostObject(id, title, content, x, y, dimensions, user_id, created_at) ==
    [id |-> id, title |-> title, content |-> content, position_x |-> x,
     position_y |-> y, dimensions |-> dimensions, user_id |-> user_id,
     created_at |-> created_at]

PA == PostObject(1, "A", "x", 1, 2, DictVal(<< <<"w", "1">> >>), "alice", Naive(0))

PB == PostObject(2, "", "y", 0, 0, NoneDict, None, Aware(1))

\* class Snapshot, member snapshot_data: the views of the board clients send
SnapshotData == {<<PA, PB>>, <<PB, PA>>}

\* {**post.dict(), "created_at": post.created_at.isoformat()} as JSON text: an
\* object is the text of each member
PostDumps(p) ==
    [id |-> NumDumps(p.id), title |-> StrDumps(p.title),
     content |-> StrDumps(p.content), position_x |-> NumDumps(p.position_x),
     position_y |-> NumDumps(p.position_y), dimensions |-> JsonDumps(p.dimensions),
     user_id |-> StrDumps(p.user_id), created_at |-> IsoFormat(p.created_at)]

\* json.dumps([... for post in snapshot.snapshot_data])
SnapshotDumps(data) == [i \in 1..Len(data) |-> PostDumps(data[i])]

\* json.loads of one object of a snapshot: created_at stays the ISO string
PostLoads(o) ==
    [id |-> NumLoads(o.id), title |-> StrLoads(o.title),
     content |-> StrLoads(o.content), position_x |-> NumLoads(o.position_x),
     position_y |-> NumLoads(o.position_y), dimensions |-> JsonLoads(o.dimensions),
     user_id |-> StrLoads(o.user_id), created_at |-> o.created_at]

\* json.loads(row["snapshot_data"])
SnapshotLoads(text) == [i \in 1..Len(text) |-> PostLoads(text[i])]

\* INSERT OR REPLACE keyed on the version number
InsertSnapshotReplacingVersion(rows, id, version, text, t) ==
    {r \in rows : r.version # version}
        \cup {[id |-> id, version |-> version, timestamp |-> t,
                snapshot_data |-> text]}

\* INSERT INTO snapshots (version, snapshot_data): the table after the insert
InsertSnapshot(rows, id, version, text, t) ==
    rows \cup {[id |-> id, version |-> version, timestamp |-> t,
                snapshot_data |-> text]}

\* One element of the list get_snapshots returns
SnapshotEntry(row) ==
    [id |-> row.id, version |-> row.version, timestamp |-> row.timestamp,
     snapshot_data |-> SnapshotLoads(row.snapshot_data)]

-----------------------------------------------------------------------------
\* Responses

NoLock == "none"

Workers == {"w1", "w2"}

NoBody == [present |-> {}]

NoPost == [id |-> 0]

\* A worker that is executing no update_post call and has finished none
Idle == [pc |-> "idle", id |-> 0, body |-> NoBody, rows |-> {}, status |-> 0]

\* What a handler saw and answered: the request (op, id, body, version, data)
\* and the response (status, post, list)
Response(op, id, body, status, post, list) ==
    [op |-> op, id |-> id, body |-> body, version |-> 0, data |-> <<>>,
     status |-> status, post |-> post, list |-> list]

\* except Exception as e: raise HTTPException(status_code=500): every
\* exception raised inside the try block leaves the handler as a 500, the
\* HTTPException(status_code=404) raised there included
ExceptException(status) == 500

\* return {**post.dict(), "id": id, "created_at": datetime.now()}
PostDict(p, id, t) ==
    [id |-> id, title |-> p.title, content |-> p.content,
     position_x |-> p.position_x, position_y |-> p.position_y,
     dimensions |-> p.dimensions, user_id |-> p.user_id, created_at |-> t]

\* {**dict(post), "dimensions": json.loads(post["dimensions"] or "{}")}
RowDict(row) ==
    [id |-> row.id, title |-> row.title, content |-> row.content,
     position_x |-> row.position_x, position_y |-> row.position_y,
     dimensions |-> JsonLoads(DimensionsOrDefault(row.dimensions)),
     user_id |-> row.user_id, created_at |-> row.created_at]

\* list(): what GET /posts/ can return for a posts table
PostsList(rows) ==
    {[i \in DOMAIN s |-> RowDict(s[i])] : s \in OrderByCreatedAtDesc(rows)}

\* list(): what GET /snapshots/ can return for a snapshots table
SnapshotsList(rows) ==
    {[i \in DOMAIN s |-> SnapshotEntry(s[i])] : s \in OrderByVersionDesc(rows)}

-----------------------------------------------------------------------------
\* State after init_db() on a fresh blog.db

Init ==
    /\ variant \in {"main", "V1"}
    /\ posts = {}
    /\ posts_seq = 0
    /\ post_versions = {}
    /\ snapshots = {}
    /\ snapshots_seq = 0
    /\ now = 0
    /\ resp = Response("init_db", 0, NoBody, 200, NoPost, <<>>)
    /\ conn = [w \in Workers |-> Idle]
    /\ lock = NoLock

\* Time passes
Tick ==
    /\ now < MaxClock
    /\ now' = now + 1
    /\ UNCHANGED <<variant, posts, posts_seq, post_versions, snapshots,
                   snapshots_seq, resp, conn, lock>>

-----------------------------------------------------------------------------
\* Handlers of the main backend, each one request from open to close

\* GET /posts/
get_posts ==
    /\ variant = "main"
    /\ \E l \in PostsList(posts) :
          resp' = Response("get_posts", 0, NoBody, 200, NoPost, l)
    /\ UNCHANGED <<variant, posts, posts_seq, post_versions, snapshots,
                   snapshots_seq, now, conn, lock>>

\* POST /posts/
create_post(b) ==
    /\ variant = "main"
    /\ lock = NoLock
    /\ IF ~PostCreateOk(b)
       THEN /\ resp' = Response("create_post", 0, b, 422, NoPost, <<>>)
            /\ UNCHANGED <<posts, posts_seq>>
       ELSE LET p == PostBase(b)
                post_id == NextRowid(posts, posts_seq)
            IN  IF ~PostsNotNull(p)
                THEN /\ resp' = Response("create_post", 0, b,
                                         ExceptException(500), NoPost, <<>>)
                     /\ UNCHANGED <<posts, posts_seq>>
                ELSE /\ posts_seq < MaxPosts
                     /\ posts' = posts \cup {InsertPost(p, post_id, now)}
                     /\ posts_seq' = post_id
                     /\ resp' = Response("create_post", 0, b, 200,
                                         PostDict(p, post_id, now), <<>>)
    /\ UNCHANGED <<variant, post_versions, snapshots, snapshots_seq, now, conn, lock>>

\* PUT /posts/{id}
update_post(id, b) ==
    /\ variant = "main"
    /\ lock = NoLock
    /\ IF ~PostCreateOk(b)
       THEN /\ resp' = Response("update_post", id, b, 422, NoPost, <<>>)
            /\ UNCHANGED posts
       ELSE LET p == PostBase(b)
            IN  IF Rowcount(posts, id) = 0
                THEN /\ resp' = Response("update_post", id, b,
                                         ExceptException(404), NoPost, <<>>)
                     /\ UNCHANGED posts
                ELSE /\ posts' = UpdatePosts(posts, id, p)
                     /\ resp' = Response("update_post", id, b, 200,
                                         PostDict(p, id, now), <<>>)
    /\ UNCHANGED <<variant, posts_seq, post_versions, snapshots, snapshots_seq,
                   now, conn, lock>>

\* DELETE /posts/{id}
delete_post(id) ==
    /\ variant = "main"
    /\ lock = NoLock
    /\ IF Rowcount(posts, id) = 0
       THEN /\ resp' = Response("delete_post", id, NoBody,
                                ExceptException(404), NoPost, <<>>)
            /\ UNCHANGED posts
       ELSE /\ posts' = DeletePosts(posts, id)
            /\ resp' = Response("delete_post", id, NoBody, 200, NoPost, <<>>)
    /\ UNCHANGED <<variant, posts_seq, post_versions, snapshots, snapshots_seq,
                   now, conn, lock>>

\* POST /snapshots/
save_snapshot(version, data) ==
    /\ variant = "main"
    /\ lock = NoLock
    /\ snapshots_seq < MaxSnapshots
    /\ LET id == NextRowid(snapshots, snapshots_seq)
       IN  /\ snapshots' = InsertSnapshot(snapshots, id, version,
                                          SnapshotDumps(data), now)
           /\ snapshots_seq' = id
    /\ resp' = [Response("save_snapshot", 0, NoBody, 200, NoPost, <<>>)
                  EXCEPT !.version = version, !.data = data]
    /\ UNCHANGED <<variant, posts, posts_seq, post_versions, now, conn, lock>>

\* GET /snapshots/
get_snapshots ==
    /\ variant = "main"
    /\ \E l \in SnapshotsList(snapshots) :
          resp' = Response("get_snapshots", 0, NoBody, 200, NoPost, l)
    /\ UNCHANGED <<variant, posts, posts_seq, post_versions, snapshots,
                   snapshots_seq, now, conn, lock>>

-----------------------------------------------------------------------------
\* Handlers of V1

\* json.dumps(post.dimensions) in a module that never imports json: the
\* NameError is raised while the INSERT's parameters are built, before the
\* statement runs, and leaves the handler as a 500
V1_JsonDumpsStatus == 500

\* GET /posts/: dict(post) for each row, dimensions left as stored
V1_get_posts ==
    /\ variant = "V1"
    /\ \E s \in OrderByCreatedAtDesc(posts) :
          resp' = Response("get_posts", 0, NoBody, 200, NoPost, s)
    /\ UNCHANGED <<variant, posts, posts_seq, post_versions, snapshots,
                   snapshots_seq, now, conn, lock>>

\* POST /posts/
V1_create_post(b) ==
    /\ variant = "V1"
    /\ resp' = Response("create_post", 0, b,
                        IF V1_PostCreateOk(b) THEN V1_JsonDumpsStatus ELSE 422,
                        NoPost, <<>>)
    /\ UNCHANGED <<variant, posts, posts_seq, post_versions, snapshots,
                   snapshots_seq, now, conn, lock>>

\* PUT /posts/{id}
V1_update_post(id, b) ==
    /\ variant = "V1"
    /\ IF ~V1_PostCreateOk(b)
       THEN /\ resp' = Response("update_post", id, b, 422, NoPost, <<>>)
            /\ UNCHANGED posts
       ELSE LET p == V1_PostBase(b)
            IN  IF Rowcount(posts, id) = 0
                THEN /\ resp' = Response("update_post", id, b, 404, NoPost, <<>>)
                     /\ UNCHANGED posts
                ELSE /\ posts' = V1_UpdatePosts(posts, id, p)
                     /\ resp' = Response("update_post", id, b, 200,
                                         PostDict(p, id, now), <<>>)
    /\ UNCHANGED <<variant, posts_seq, post_versions, snapshots, snapshots_seq,
                   now, conn, lock>>

\* DELETE /posts/{id}
V1_delete_post(id) ==
    /\ variant = "V1"
    /\ IF Rowcount(posts, id) = 0
       THEN /\ resp' = Response("delete_post", id, NoBody, 404, NoPost, <<>>)
            /\ UNCHANGED <<posts, post_versions>>
       ELSE /\ posts' = DeletePosts(posts, id)
            /\ post_versions' = V1_DeleteVersions(post_versions, id)
            /\ resp' = Response("delete_post", id, NoBody, 200, NoPost, <<>>)
    /\ UNCHANGED <<variant, posts_seq, snapshots, snapshots_seq, now, conn, lock>>

-----------------------------------------------------------------------------
\* update_post of the main backend statement by statement, for several worker
\* processes serving requests at once.  Each worker has its own connection;
\* SQLite gives the write lock to one connection at a time, and a connection's
\* writes reach the others at its commit.  Each worker serves one call.

\* conn = get_db_connection(); c = conn.cursor()
update_post_connect(w, id, b) ==
    /\ variant = "main"
    /\ conn[w].pc = "idle"
    /\ PostCreateOk(b)
    /\ conn' = [conn EXCEPT ![w] = [pc |-> "connected", id |-> id, body |-> b,
                                    rows |-> {}, status |-> 0]]
    /\ UNCHANGED <<variant, posts, posts_seq, post_versions, snapshots,
                   snapshots_seq, now, resp, lock>>

\* c.execute('UPDATE posts SET ... WHERE id = ?'): waits while another
\* connection holds the write lock, then takes it
update_post_execute(w) ==
    /\ conn[w].pc = "connected"
    /\ lock = NoLock
    /\ lock' = w
    /\ conn' = [conn EXCEPT
                  ![w].pc = IF Rowcount(posts, conn[w].id) = 0
                            THEN "notfound" ELSE "updated",
                  ![w].rows = UpdatePosts(posts, conn[w].id, PostBase(conn[w].body))]
    /\ UNCHANGED <<variant, posts, posts_seq, post_versions, snapshots,
                   snapshots_seq, now, resp>>

\* if c.rowcount == 0: conn.close(); raise HTTPException(status_code=404)
update_post_raise(w) ==
    /\ conn[w].pc = "notfound"
    /\ lock' = NoLock
    /\ conn' = [conn EXCEPT ![w].pc = "done", ![w].rows = {},
                            ![w].status = ExceptException(404)]
    /\ resp' = Response("update_post", conn[w].id, conn[w].body,
                        ExceptException(404), NoPost, <<>>)
    /\ UNCHANGED <<variant, posts, posts_seq, post_versions, snapshots,
                   snapshots_seq, now>>

\* conn.commit(); return {**post.dict(), ...}; conn.close()
update_post_commit(w) ==
    /\ conn[w].pc = "updated"
    /\ posts' = conn[w].rows
    /\ lock' = NoLock
    /\ conn' = [conn EXCEPT ![w].pc = "done", ![w].rows = {}, ![w].status = 200]
    /\ resp' = Response("update_post", conn[w].id, conn[w].body, 200,
                        PostDict(PostBase(conn[w].body), conn[w].id, now), <<>>)
    /\ UNCHANGED <<variant, posts_seq, post_versions, snapshots, snapshots_seq, now>>

-----------------------------------------------------------------------------

Next ==
    \/ Tick
    \/ get_posts
    \/ \E b \in Bodies : create_post(b)
    \/ \E id \in Ids, b \in Bodies : update_post(id, b)
    \/ \E id \in Ids : delete_post(id)
    \/ \E version \in Versions, data \in SnapshotData : save_snapshot(version, data)
    \/ get_snapshots
    \/ V1_get_posts
    \/ \E b \in Bodies : V1_create_post(b)
    \/ \E id \in Ids, b \in Bodies : V1_update_post(id, b)
    \/ \E id \in Ids : V1_delete_post(id)

\* Either backend, one request at a time: a single server process, whose
\* handlers are coroutines that never await
Spec == Init /\ [][Next]_vars

\* A fresh blog.db served by the main backend
InitMain == Init /\ variant = "main"

\* The Post service of the main backend alone: no client saves or lists
\* snapshots
NextPosts ==
    \/ Tick
    \/ get_posts
    \/ \E b \in Bodies : create_post(b)
    \/ \E id \in Ids, b \in Bodies : update_post(id, b)
    \/ \E id \in Ids : delete_post(id)

SpecPosts == InitMain /\ [][NextPosts]_vars

\* Several worker processes of the main backend on one blog.db, each taking
\* one update_post call on the Posts created before the calls arrive
NextConc ==
    \/ Tick
    \/ (\A w \in Workers : conn[w].pc = "idle") /\ \E b \in Bodies : create_post(b)
    \/ \E w \in Workers, id \in Ids, b \in Bodies : update_post_connect(w, id, b)
    \/ \E w \in Workers : update_post_execute(w)
    \/ \E w \in Workers : update_post_raise(w)
    \/ \E w \in Workers : update_post_commit(w)

SpecConc == InitMain /\ [][NextConc]_vars

-----------------------------------------------------------------------------
\* Vocabulary of the properties

\* id is the identifier of a row of the table
Resolves(rows, id) == \E r \in rows : r.id = id

\* The step is a call of handler op (a call that repeats the previous one with
\* the same outcome on the same tables is a stuttering step)
Call(op) == resp'.op = op /\ resp' # resp

\* The body has every member the deployed backend requires of it
HasRequired(b) ==
    /\ "title" \in b.present /\ "content" \in b.present
    /\ variant = "V1" => ("position_x" \in b.present /\ "position_y" \in b.present)

\* The values a body supplies, defaults filled in
Supplied(b) ==
    [title |-> b.title, content |-> b.content,
     position_x |-> IF "position_x" \in b.present THEN b.position_x ELSE 0,
     position_y |-> IF "position_y" \in b.present THEN b.position_y ELSE 0,
     dimensions |-> IF "dimensions" \in b.present THEN b.dimensions ELSE DictVal(<<>>)]

\* The same four values of a persisted row, as list() reports them
Held(row) ==
    [title |-> row.title, content |-> row.content,
     position_x |-> row.position_x, position_y |-> row.position_y,
     dimensions |-> RowDict(row).dimensions]

-----------------------------------------------------------------------------
\* C1: every successful update of an existing Post creates exactly one new
\* PostVersion, which holds the Post's identifier, owner, title, content and
\* attribute map as they were immediately before the update.
C1_UpdateCreatesOneVersion ==
    [][ (Call("update_post") /\ resp'.status = 200) =>
          \E v \in post_versions' :
             /\ post_versions' = post_versions \cup {v}
             /\ v \notin post_versions
             /\ \E r \in posts :
                   /\ r.id = resp'.id
                   /\ v.post_id = r.id
                   /\ v.user_id = r.user_id
                   /\ v.title = r.title
                   /\ v.content = r.content
                   /\ v.dimensions = r.dimensions ]_vars

\* C2: update(id, ...) and delete(id) with an identifier that resolves to no
\* Post (and, for update, a body that validates) answer 404.
C2_NotFoundIs404 ==
    [][ (/\ Call("update_post") \/ Call("delete_post")
         /\ ~Resolves(posts, resp'.id)
         /\ resp'.op = "update_post" => HasRequired(resp'.body))
        => resp'.status = 404 ]_vars

\* C3: once a Post has been deleted its identifier stays absent from list(),
\* every further update or delete of it answers 404, and no PostVersion
\* references it; and every PostVersion references an existing Post.
Deleted == {id \in 1..posts_seq : ~Resolves(posts, id)}

C3_DeletedStaysGone ==
    [][ /\ \A id \in Deleted :
              /\ \A l \in PostsList(posts') : \A i \in DOMAIN l : l[i].id # id
              /\ \A v \in post_versions' : v.post_id # id
              /\ (/\ Call("update_post") \/ Call("delete_post")
                  /\ resp'.id = id
                  /\ resp'.op = "update_post" => HasRequired(resp'.body))
                 => resp'.status = 404
        /\ \A v \in post_versions' : Resolves(posts', v.post_id) ]_vars

\* C4: a saved snapshot is listed, with its version and with a payload equal
\* member by member and in order to the posts that were saved, after the save
\* and after every later operation, saves of the same version included.
SamePosts(out, data) ==
    /\ Len(out) = Len(data)
    /\ \A k \in 1..Len(data) :
          /\ out[k].id = data[k].id
          /\ out[k].title = data[k].title
          /\ out[k].content = data[k].content
          /\ out[k].position_x = data[k].position_x
          /\ out[k].position_y = data[k].position_y
          /\ out[k].dimensions = data[k].dimensions
          /\ out[k].user_id = data[k].user_id
          /\ ParseIso(out[k].created_at) = data[k].created_at

C4_SnapshotRoundTripDurable ==
    [][ /\ (resp'.op = "save_snapshot" /\ snapshots' # snapshots) =>
              \A l \in SnapshotsList(snapshots') : \E i \in DOMAIN l :
                 /\ l[i].version = resp'.version
                 /\ SamePosts(l[i].snapshot_data, resp'.data)
        /\ snapshots' # snapshots =>
              \A l \in SnapshotsList(snapshots) : \A i \in DOMAIN l :
                 \A m \in SnapshotsList(snapshots') : \E j \in DOMAIN m :
                    /\ m[j].version = l[i].version
                    /\ m[j].snapshot_data = l[i].snapshot_data ]_vars

\* Two snapshots of one version with different payloads have been saved and
\* listed, with posts created in between
C4_Witness ==
    /\ resp.op = "get_snapshots"
    /\ Len(resp.list) = 2
    /\ resp.list[1].version = resp.list[2].version
    /\ resp.list[1].snapshot_data # resp.list[2].snapshot_data
    /\ posts # {}

\* C5: a successful update sets the Post's title, content, position and
\* attribute map to the supplied values and leaves its identifier, creation
\* timestamp and owner, and every other Post, as they were.
C5_UpdateFrame ==
    [][ (Call("update_post") /\ resp'.status = 200) =>
          \E r \in posts : \E q \in posts' :
             /\ r.id = resp'.id
             /\ q.id = r.id
             /\ Held(q) = Supplied(resp'.body)
             /\ q.created_at = r.created_at
             /\ q.user_id = r.user_id
             /\ posts' \ {q} = posts \ {r} ]_vars

\* An update at a later time than the creation, by a body naming another
\* owner, of one of two Posts, that changed the Post
C5_Witness ==
    /\ resp.op = "update_post"
    /\ resp.status = 200
    /\ Cardinality(posts) = 2
    /\ \E q \in posts :
          /\ q.id = resp.id
          /\ q.created_at < now
          /\ q.user_id # resp.post.user_id
          /\ q.title = "B"
          /\ Held(q) = Supplied(resp.body)

\* C6 as claimed: create is rejected with a validation error, the posts
\* table and its sequence untouched, whenever title or content is missing or
\* is the empty text; so no Post has an empty title.
MissingText(b) == "title" \notin b.present \/ "content" \notin b.present

EmptyText(b) ==
    \/ "title" \in b.present /\ b.title = ""
    \/ "content" \in b.present /\ b.content = ""

Rejected == resp'.status = 422 /\ posts' = posts /\ posts_seq' = posts_seq

IdsOf(rows) == {r.id : r \in rows}

C7_UniqueStableIds ==
    [][ /\ \A r, q \in posts' : r.id = q.id => r = q
        /\ (Call("create_post") /\ resp'.status = 200) =>
              /\ resp'.post.id \notin IdsOf(posts)
              /\ IdsOf(posts') = IdsOf(posts) \cup {resp'.post.id}
        /\ Call("update_post") => IdsOf(posts') = IdsOf(posts)
        /\ Call("delete_post") => IdsOf(posts') \subseteq IdsOf(posts) ]_vars

\* A create has succeeded after an earlier Post was deleted, beside the Posts
\* still in the table
C7_Witness ==
    /\ resp.op = "create_post"
    /\ resp.status = 200
    /\ Deleted # {}
    /\ resp.post.id \in IdsOf(posts)

\* C8: an update or delete of an identifier that resolves to no Post leaves
\* the Posts, the PostVersions and the Snapshots as they were.
C8_NotFoundNoSideEffects ==
    [][ ((Call("update_post") \/ Call("delete_post")) /\ ~Resolves(posts, resp'.id))
        => /\ posts' = posts
           /\ post_versions' = post_versions
           /\ snapshots' = snapshots ]_vars

\* An update of an unknown identifier has failed on tables that hold a Post
\* and a Snapshot
C8_Witness ==
    /\ resp.op = "update_post"
    /\ resp.status \in {404, 500}
    /\ ~Resolves(posts, resp.id)
    /\ posts # {}
    /\ snapshots # {}

\* C9: the response of a successful update equals, in every member but the
\* creation timestamp, the persisted Post as list() reports it.
C9_ResponseIsPersistedRecord ==
    (resp.op = "update_post" /\ resp.status = 200) =>
        \A l \in PostsList(posts) : \E i \in DOMAIN l :
           /\ l[i].id = resp.post.id
           /\ l[i].user_id = resp.post.user_id
           /\ l[i].title = resp.post.title
           /\ l[i].content = resp.post.content
           /\ l[i].position_x = resp.post.position_x
           /\ l[i].position_y = resp.post.position_y
           /\ l[i].dimensions = resp.post.dimensions

\* C10: two update calls of one existing Post, in any interleaving, both
\* succeed, and the Post then holds title, content, position and attribute map
\* of the call whose write came last, with owner and creation timestamp as
\* they were.
C10_LastWriteWins ==
    [][ /\ \A w \in Workers :
              /\ (/\ conn[w].pc = "connected" /\ conn'[w].pc # "connected"
                  /\ Resolves(posts, conn[w].id))
                 => conn'[w].pc = "updated"
              /\ (conn[w].pc = "updated" /\ conn'[w].pc = "done")
                 => /\ conn'[w].status = 200
                    /\ \E q \in posts' :
                          q.id = conn[w].id /\ Held(q) = Supplied(conn[w].body)
        /\ (/\ \A w \in Workers : conn'[w].pc = "done" /\ conn'[w].status = 200
            /\ conn'["w1"].id = conn'["w2"].id)
           => \E q \in posts' :
                 /\ q.id = conn'["w1"].id
                 /\ \E w \in Workers : Held(q) = Supplied(conn'[w].body)
                 /\ resp'.op = "update_post" => Held(q) = Supplied(resp'.body)
        /\ \A r \in posts : \A q \in posts' :
              q.id = r.id => (q.user_id = r.user_id /\ q.created_at = r.created_at)
      ]_vars

\* Both workers have updated the same Post, created earlier by another owner,
\* with different bodies, and the Post holds the values of one and not of the
\* other
C10_Witness ==
    /\ \A w \in Workers : conn[w].pc = "done" /\ conn[w].status = 200
    /\ conn["w1"].id = conn["w2"].id
    /\ Supplied(conn["w1"].body) # Supplied(conn["w2"].body)
    /\ resp.op = "update_post"
    /\ \E q \in posts :
          /\ q.id = conn["w1"].id
          /\ q.created_at < now
          /\ q.user_id = "alice"
          /\ Held(q) = Supplied(conn["w2"].body)
          /\ resp.body = conn["w2"].body

====
